---- MODULE Spec2Model ----
(***************************************************************************)
(* Model of the portfolio rebalancing engine of stay-the-course            *)
(* (src/rebalance.rs): AssetAllocation, Portfolio,                         *)
(* minimum_addition_to_balance and optimally_allocate, over a model of     *)
(* rust_decimal's Decimal arithmetic; and of bond_allocation and core_four *)
(* (src/allocation.rs) and price_to_cents (src/decutil.rs).                *)
(*                                                                         *)
(* Spec is the run of main: allocations, assets, portfolio, minimum,       *)
(* optimally_allocate.  SpecBuild is a caller of the library building      *)
(* allocations with add_asset and add_contribution.  SpecRepeat is a       *)
(* caller handing the returned portfolio to optimally_allocate once more.  *)
(* SpecFunctions calls one function of allocation.rs or decutil.rs on one  *)
(* input.                                                                  *)
(*                                                                         *)
(* A Decimal is modelled by its mantissa at the library's largest scale:   *)
(* the integer m stands for m / 10^DecScale.  Sums and differences are     *)
(* exact; a product or quotient that needs more than DecScale decimal      *)
(* places is rounded to DecScale places (half to even), as rust_decimal    *)
(* does at its 28 places.  The 96-bit limit of the mantissa is not         *)
(* reached by the amounts drawn here.                                      *)
(***************************************************************************)
EXTENDS Integers, Sequences, FiniteSets

\* ------------------------------------------------------------------ bounds
\* Decimal places kept by a Decimal (28 in rust_decimal)
DecScale == 2
\* Largest value of one asset, in whole dollars
MaxValue == 2
\* Largest magnitude of a contribution, in whole dollars
MaxContribution == 3
\* Largest number of add_asset calls before the portfolio is built
MaxAssets == 3
\* Largest number of add_contribution calls before the portfolio is built
MaxCalls == 2
\* Largest age, in years, of the investor bond_allocation is asked about
MaxAge == 3
\* Bits of the u64 that price_to_cents returns (64 in Rust)
U64Bits == 5

\* ----------------------------------------------------------------- Decimal
RECURSIVE Pow10(_)
Pow10(n) == IF n = 0 THEN 1 ELSE 10 * Pow10(n - 1)

\* Mantissa of 1
Unit == Pow10(DecScale)

\* Decimal::from(n) for an integer n
Dec(n) == n * Unit

\* Decimal::new(n, 1): n tenths
Tenths(n) == n * (Unit \div 10)

Abs(x) == IF x < 0 THEN -x ELSE x

\* n / d for d > 0, rounded to the nearest integer, ties to the even one
RoundHalfEven(n, d) ==
    LET q == n \div d
        r == n % d
    IN  IF 2 * r < d THEN q
        ELSE IF 2 * r > d THEN q + 1
        ELSE IF q % 2 = 0 THEN q ELSE q + 1

\* Decimal * Decimal
DecMul(a, b) == RoundHalfEven(a * b, Unit)

\* Decimal / Decimal, for b # 0 (a zero divisor panics: see DivisionByZero)
DecDiv(a, b) ==
    IF b > 0 THEN RoundHalfEven(a * Unit, b) ELSE RoundHalfEven((-a) * Unit, -b)

\* ------------------------------------------------------------------ assets
\* The asset classes of the portfolios drawn here
AssetClass == {"USBonds", "USTotal", "IntlStocks"}

\* Asset names, by their rank in string order
Names == {1}

\* Values an asset may have (a liability shows as a negative value)
Values == {Dec(v) : v \in (-1)..MaxValue}

Asset == [name : Names, value : Values, asset_class : AssetClass]

\* impl Ord for Asset: by name, then by descending value
AssetLess(a, b) ==
    \/ a.name < b.name
    \/ a.name = b.name /\ a.value > b.value

\* Insert x into the sorted sequence s after every element not greater
\* than it (Vec::sort is stable and x was pushed last)
RECURSIVE InsertAsset(_, _)
InsertAsset(s, x) ==
    IF s = << >> THEN << x >>
    ELSE IF AssetLess(x, Head(s)) THEN << x >> \o s
    ELSE << Head(s) >> \o InsertAsset(Tail(s), x)

\* --------------------------------------------------------- AssetAllocation
RECURSIVE SumValues(_)
SumValues(assets) ==
    IF assets = << >> THEN 0 ELSE Head(assets).value + SumValues(Tail(assets))

AssetAllocation_new(asset_class, target_ratio) ==
    [asset_class |-> asset_class,
     target_ratio |-> target_ratio,
     underlying_assets |-> << >>,
     future_contribution |-> 0]

\* add_contribution keeping the last amount only
add_contribution_Replacing(a, contribution) ==
    [a EXCEPT !.future_contribution = contribution]

add_contribution(a, contribution) ==
    [a EXCEPT !.future_contribution = @ + contribution]

current_value(a) == SumValues(a.underlying_assets)

future_value(a) == current_value(a) + a.future_contribution

percent_holdings(a, portfolio_total) == DecDiv(future_value(a), portfolio_total)

deviation(a, new_total) ==
    DecDiv(percent_holdings(a, new_total), a.target_ratio) - Dec(1)

\* deviation panics ("Division by zero") for one of the allocations
DivisionByZero(allocs, total) ==
    \/ total = 0 /\ allocs # << >>
    \/ \E i \in 1..Len(allocs) : allocs[i].target_ratio = 0

\* add_asset panics ("Asset types must match")
ClassMismatch(a, asset) == asset.asset_class # a.asset_class

\* add_asset, for an asset of the allocation's class: push, then sort
add_asset(a, asset) ==
    [a EXCEPT !.underlying_assets = InsertAsset(@, asset)]

\* --------------------------------------------------------------- Portfolio
\* The order taken by future value instead of current value
RECURSIVE InsertByValue_Future(_, _)
InsertByValue_Future(s, x) ==
    IF s = << >> THEN << x >>
    ELSE IF future_value(x) > future_value(Head(s)) THEN << x >> \o s
    ELSE << Head(s) >> \o InsertByValue_Future(Tail(s), x)

\* Insert x into s, sorted by descending current value, after every element
\* that does not compare greater (impl Ord for AssetAllocation; stable sort)
RECURSIVE InsertByValue(_, _)
InsertByValue(s, x) ==
    IF s = << >> THEN << x >>
    ELSE IF current_value(x) > current_value(Head(s)) THEN << x >> \o s
    ELSE << Head(s) >> \o InsertByValue(Tail(s), x)

RECURSIVE SortByValue(_)
SortByValue(s) ==
    IF s = << >> THEN << >>
    ELSE InsertByValue(SortByValue(SubSeq(s, 1, Len(s) - 1)), s[Len(s)])

Portfolio_new(allocs) == SortByValue(allocs)

\* Iterator::sum over a sequence of Decimals
RECURSIVE Sum(_)
Sum(s) == IF s = << >> THEN 0 ELSE Head(s) + Sum(Tail(s))

Portfolio_current_value(allocs) ==
    Sum([i \in 1..Len(allocs) |-> current_value(allocs[i])])

Portfolio_future_value(allocs) ==
    Sum([i \in 1..Len(allocs) |-> future_value(allocs[i])])

sum_target_ratios(allocs) ==
    Sum([i \in 1..Len(allocs) |-> allocs[i].target_ratio])

num_asset_classes(allocs) == Len(allocs)

\* Iterator::max_by over deviation(total): the last of the greatest elements
RECURSIVE MostOverallocated(_, _)
MostOverallocated(allocs, total) ==
    IF Len(allocs) = 1 THEN allocs[1]
    ELSE LET best == MostOverallocated(SubSeq(allocs, 1, Len(allocs) - 1), total)
             last == allocs[Len(allocs)]
         IN  IF deviation(last, total) >= deviation(best, total) THEN last ELSE best

\* minimum_addition_to_balance, where it does not panic
minimum_addition_to_balance(allocs) ==
    LET total == Portfolio_current_value(allocs)
    IN  IF total = 0 THEN 0
        ELSE LET most_overallocated == MostOverallocated(allocs, total)
                 min_new_portfolio_value ==
                     DecDiv(current_value(most_overallocated),
                            most_overallocated.target_ratio)
             IN  min_new_portfolio_value - total

\* minimum_addition_to_balance panics: no allocation to take the maximum
\* of, or a division by a zero target ratio
MinimumPanics(allocs) ==
    LET total == Portfolio_current_value(allocs)
    IN  /\ total # 0
        /\ DivisionByZero(allocs, total)

\* ------------------------------------------------------ optimally_allocate
\* The fallback splitting the contribution evenly over the classes
proportionally_allocate_Evenly(allocs, contribution) ==
    [i \in 1..Len(allocs) |->
        add_contribution(allocs[i], DecDiv(contribution, Dec(Len(allocs))))]

proportionally_allocate(allocs, contribution) ==
    [i \in 1..Len(allocs) |->
        add_contribution(allocs[i], DecMul(allocs[i].target_ratio, contribution))]

\* sort_by(|a, b| a.deviation(new_total).cmp(&b.deviation(new_total))): stable
RECURSIVE InsertByDeviation(_, _, _)
InsertByDeviation(s, x, new_total) ==
    IF s = << >> THEN << x >>
    ELSE IF deviation(x, new_total) < deviation(Head(s), new_total) THEN << x >> \o s
    ELSE << Head(s) >> \o InsertByDeviation(Tail(s), x, new_total)

RECURSIVE SortByDeviation(_, _)
SortByDeviation(s, new_total) ==
    IF s = << >> THEN << >>
    ELSE InsertByDeviation(SortByDeviation(SubSeq(s, 1, Len(s) - 1), new_total),
                           s[Len(s)], new_total)

Reverse(s) == [i \in 1..Len(s) |-> s[Len(s) + 1 - i]]

\* The order reversed for the deposit instead of the withdrawal
PriorityOrder_ReversedForDeposit(allocs, contribution, new_total) ==
    LET sorted == SortByDeviation(allocs, new_total)
    IN  IF contribution > 0 THEN Reverse(sorted) ELSE sorted

\* The order of Portfolio::new kept: no sort by deviation
PriorityOrder_ByCurrentValue(allocs, contribution, new_total) ==
    IF contribution < 0 THEN Reverse(allocs) ELSE allocs

\* The allocations in the order of the walk
PriorityOrder(allocs, contribution, new_total) ==
    LET sorted == SortByDeviation(allocs, new_total)
    IN  IF contribution < 0 THEN Reverse(sorted) ELSE sorted

\* The loop over the sorted allocations, from the iteration at position
\* index (1-based) on.  lefts collects amount_left_to_contribute as it is at
\* the start of the walk and after each iteration.
RECURSIVE Walk(_, _, _, _, _, _)
Walk(sorted, new_total, index, amount_left, summed, lefts) ==
    LET asset == sorted[index]
        deviation_target == deviation(asset, new_total)
        target_value == DecMul(new_total, asset.target_ratio)
        summed_targets_of_affected_assets == summed + target_value
        next_lowest_deviation ==
            IF index >= num_asset_classes(sorted) THEN 0
            ELSE deviation(sorted[index + 1], new_total)
        delta == DecMul(summed_targets_of_affected_assets,
                        next_lowest_deviation - deviation_target)
        partial == Abs(delta) > Abs(amount_left)
        new_left == IF partial THEN 0 ELSE amount_left - delta
        new_target ==
            IF partial
            THEN deviation_target
                 + DecDiv(amount_left, summed_targets_of_affected_assets)
            ELSE next_lowest_deviation
        new_lefts == Append(lefts, new_left)
    IN  IF new_left = 0 \/ index = Len(sorted)
        THEN [deviation_target |-> new_target,
              index_to_stop |-> index,
              amount_left |-> new_left,
              lefts |-> new_lefts]
        ELSE Walk(sorted, new_total, index + 1, new_left,
                  summed_targets_of_affected_assets, new_lefts)

\* The second loop buying an asset worth the delta instead of recording it
FinalDeltas_BuysAssets(sorted, new_total, deviation_target, index_to_stop) ==
    [i \in 1..Len(sorted) |->
        IF i > index_to_stop THEN sorted[i]
        ELSE LET target_value == DecMul(new_total, sorted[i].target_ratio)
                 delta == DecMul(target_value,
                                 deviation_target - deviation(sorted[i], new_total))
             IN  add_asset(sorted[i], [name |-> 1, value |-> delta,
                                       asset_class |-> sorted[i].asset_class])]

\* The second loop without its break: every allocation gets a delta
FinalDeltas_ToEveryClass(sorted, new_total, deviation_target, index_to_stop) ==
    [i \in 1..Len(sorted) |->
        LET target_value == DecMul(new_total, sorted[i].target_ratio)
            delta == DecMul(target_value,
                            deviation_target - deviation(sorted[i], new_total))
        IN  add_contribution(sorted[i], delta)]

\* The second loop: the first index_to_stop allocations get their delta
FinalDeltas(sorted, new_total, deviation_target, index_to_stop) ==
    [i \in 1..Len(sorted) |->
        IF i > index_to_stop THEN sorted[i]
        ELSE LET target_value == DecMul(new_total, sorted[i].target_ratio)
                 delta == DecMul(target_value,
                                 deviation_target - deviation(sorted[i], new_total))
             IN  add_contribution(sorted[i], delta)]

\* if contribution == 0.into(): the check left out
ZeroContribution_Unchecked(contribution) == FALSE

\* if contribution == 0.into()
ZeroContribution(contribution) == contribution = 0

\* The ratio check rejecting only a sum above 1
ImbalancedTargets_AboveOnly(allocs) == sum_target_ratios(allocs) > Dec(1)

\* if portfolio.sum_target_ratios() != 1.into()
ImbalancedTargets(allocs) == sum_target_ratios(allocs) # Dec(1)

\* The withdrawal check left out
OverWithdrawal_Unchecked(current, contribution) == FALSE

\* The withdrawal check with <= for <: the whole portfolio may be withdrawn
OverWithdrawal_AllowsAll(current, contribution) ==
    contribution < 0 /\ ~(Abs(contribution) <= current)

\* if contribution.is_sign_negative() { assert!(contribution.abs() < current_value) }
OverWithdrawal(current, contribution) ==
    contribution < 0 /\ ~(Abs(contribution) < current)

\* assert!(!current_value.is_sign_negative())
NegativeBalance(current) == current < 0

\* The checks with the balance asserted before the withdrawal is compared
Outcome_BalanceFirst(allocs, contribution) ==
    LET current == Portfolio_current_value(allocs)
        new_total == current + contribution
    IN  IF ZeroContribution(contribution) THEN "ZeroContribution"
        ELSE IF ImbalancedTargets(allocs) THEN "ImbalancedTargets"
        ELSE IF NegativeBalance(current) THEN "NegativeBalance"
        ELSE IF OverWithdrawal(current, contribution) THEN "OverWithdrawal"
        ELSE IF current = 0 THEN "Proportional"
        ELSE IF DivisionByZero(allocs, new_total) THEN "DivisionByZero"
        ELSE "General"

\* The checks of optimally_allocate in the order of the code: the panic the
\* call ends in, "Proportional" or "General" for the branch that allocates.
\* With more than one allocation the sort evaluates every deviation, which
\* divides by the target ratio; past it new_total and the summed targets
\* are positive, so the walk divides by no zero.
Outcome(allocs, contribution) ==
    LET current == Portfolio_current_value(allocs)
        new_total == current + contribution
    IN  IF ZeroContribution(contribution) THEN "ZeroContribution"
        ELSE IF ImbalancedTargets(allocs) THEN "ImbalancedTargets"
        ELSE IF OverWithdrawal(current, contribution) THEN "OverWithdrawal"
        ELSE IF current = 0 THEN "Proportional"
        ELSE IF NegativeBalance(current) THEN "NegativeBalance"
        ELSE IF DivisionByZero(allocs, new_total) THEN "DivisionByZero"
        ELSE "General"

\* The portfolio optimally_allocate returns, when Outcome is a branch
optimally_allocate(allocs, contribution) ==
    LET current == Portfolio_current_value(allocs)
        new_total == current + contribution
        sorted == PriorityOrder(allocs, contribution, new_total)
        walk == Walk(sorted, new_total, 1, contribution, 0, << contribution >>)
    IN  IF current = 0 THEN proportionally_allocate(allocs, contribution)
        ELSE FinalDeltas(sorted, new_total, walk.deviation_target, walk.index_to_stop)

\* The indices of the allocations, in the order optimally_allocate leaves
\* them in, on which it calls add_contribution: every one in
\* proportionally_allocate, the first index_to_stop in the second loop
Contributed(allocs, contribution) ==
    LET current == Portfolio_current_value(allocs)
        new_total == current + contribution
        sorted == PriorityOrder(allocs, contribution, new_total)
        walk == Walk(sorted, new_total, 1, contribution, 0, << contribution >>)
    IN  IF current = 0 THEN 1..Len(allocs) ELSE 1..walk.index_to_stop

\* ------------------------------------------- allocation.rs and decutil.rs
\* The ratios of allocation.rs and the prices of decutil.rs need more places
\* than whole dollars and tenths: bond_allocation returns four, and
\* price_to_cents rounds thousandths of a dollar.  A Decimal of these
\* functions is its mantissa at FineScale places, the most it keeps.
FineScale == DecScale + 2

\* Mantissa of 1 at FineScale places
FineUnit == Pow10(FineScale)

\* Decimal::new(num, 2) * x: the product, rounded to the places a Decimal keeps
MulHundredths(num, x) == RoundHalfEven(num * x, 100)

\* x.round_dp(dp)
round_dp(x, dp) == RoundHalfEven(x, Pow10(FineScale - dp)) * Pow10(FineScale - dp)

\* assert!(birthday < today), for a birthday that many days before today
BornInFuture(days) == ~(days > 0)

\* (today - birthday).num_weeks()
age_in_weeks(days) == days \div 7

\* bond_allocation returning the bond share without the two range checks
bond_allocation_Unclamped(days, from_years) ==
    LET age == RoundHalfEven(age_in_weeks(days) * FineUnit, 52)
    IN  FineUnit - (round_dp(from_years * FineUnit - age, 2) \div 100)

\* bond_allocation(birthday, from_years); set_scale(scale + 2) divides the
\* rounded difference by 100
bond_allocation(days, from_years) ==
    LET age == RoundHalfEven(age_in_weeks(days) * FineUnit, 52)
        rounded == round_dp(from_years * FineUnit - age, 2)
        stock_allocation == rounded \div 100
    IN  IF stock_allocation < 0 THEN FineUnit
        ELSE IF stock_allocation > FineUnit THEN 0
        ELSE FineUnit - stock_allocation

\* The assertion core_four fails, "none" if it fails none
CoreFourPanic(ratio_bonds) ==
    IF ratio_bonds < 0 THEN "Ratio must be positive"
    ELSE IF ~(ratio_bonds <= FineUnit) THEN "Ratio cannot exceed 100%"
    ELSE "none"

\* core_four(ratio_bonds), where it does not panic
core_four(ratio_bonds) ==
    LET ratio_stocks == FineUnit - ratio_bonds
    IN  << AssetAllocation_new("USBonds", ratio_bonds),
           AssetAllocation_new("USTotal", MulHundredths(33, ratio_stocks)),
           AssetAllocation_new("USSmall", MulHundredths(17, ratio_stocks)),
           AssetAllocation_new("IntlStocks", MulHundredths(40, ratio_stocks)),
           AssetAllocation_new("REIT", MulHundredths(10, ratio_stocks)) >>

\* u64::MAX
U64Max == 2^U64Bits - 1

\* price_to_cents rounding a half cent up
price_to_cents_HalfUp(quantity) ==
    LET rounded_to_whole_cents == (2 * quantity * 100 + FineUnit) \div (2 * FineUnit)
    IN  IF quantity < 0 \/ rounded_to_whole_cents > U64Max THEN << >>
        ELSE << rounded_to_whole_cents >>

\* price_to_cents(quantity): << >> for None, << c >> for Some(c).  to_u64
\* gives None for a Decimal of negative sign and for one above u64::MAX.
price_to_cents(quantity) ==
    LET rounded_to_whole_cents == RoundHalfEven(quantity * 100, FineUnit)
    IN  IF quantity < 0 \/ rounded_to_whole_cents > U64Max THEN << >>
        ELSE << rounded_to_whole_cents >>

\* ------------------------------------------------------------ state machine
VARIABLES
    stage,          \* "allocations", "portfolio", "allocated" ("reallocated"
                    \* after a second call) or "panicked"
                    \* ("function" where one function is called on its own)
    allocations,    \* the Vec<AssetAllocation>, later the Portfolio's
    assets_added,   \* number of add_asset calls so far
    minimum,        \* << m >> for the last result m of minimum_addition_to_balance
    before,         \* the portfolio handed to optimally_allocate
    contribution,   \* the contribution handed to optimally_allocate
    outcome,        \* "none", "Ok" or the panic the program ended in
    ledger,         \* per asset class, what add_asset and add_contribution were handed
    call,           \* << c >> for the call c of a function of allocation.rs or decutil.rs
    returned        \* << v >> for the value v that call returned, << "panic" >> if it panicked

vars ==
    << stage, allocations, assets_added, minimum, before, contribution, outcome,
       ledger, call, returned >>

\* The order in which the allocations are created
ClassOrder == << "USBonds", "USTotal", "IntlStocks" >>

\* Target ratios of the allocations, in tenths, in the order of ClassOrder
TargetRatios ==
    { << 10 >>, << 5, 5 >>, << 3, 7 >>, << 1, 9 >>, << 3, 3 >>, << 7, 7 >>,
      << 0, 10 >>,
      << 6, 3, 1 >>, << 3, 3, 4 >> }

\* The amounts the user may type: whole dollars, or the minimum to balance
\* that the program has just reported
Contributions == {Dec(c) : c \in (-MaxContribution)..MaxContribution}

Range(s) == {s[i] : i \in 1..Len(s)}

Init ==
    /\ stage = "allocations"
    /\ \E ratios \in TargetRatios :
          allocations = [i \in 1..Len(ratios) |->
                            AssetAllocation_new(ClassOrder[i], Tenths(ratios[i]))]
    /\ assets_added = 0
    /\ minimum = << >>
    /\ before = << >>
    /\ contribution = 0
    /\ outcome = "none"
    /\ ledger = [c \in {allocations[i].asset_class : i \in 1..Len(allocations)} |->
                    [assets |-> 0, contributions |-> 0, calls |-> 0]]
    /\ call = << >>
    /\ returned = << >>

\* add_asset pushing the asset before it compares the classes
AddAsset_PushesFirst(i, asset) ==
    /\ stage = "allocations"
    /\ assets_added < MaxAssets
    /\ assets_added' = assets_added + 1
    /\ allocations' = [allocations EXCEPT ![i] = add_asset(@, asset)]
    /\ IF ClassMismatch(allocations[i], asset)
       THEN /\ stage' = "panicked"
            /\ outcome' = "ClassMismatch"
            /\ UNCHANGED ledger
       ELSE /\ ledger' = [ledger EXCEPT ![allocations[i].asset_class].assets =
                                            @ + asset.value]
            /\ UNCHANGED << stage, outcome >>
    /\ UNCHANGED << minimum, before, contribution, call, returned >>

\* allocations[i].add_asset(asset)
AddAsset(i, asset) ==
    /\ stage = "allocations"
    /\ assets_added < MaxAssets
    /\ assets_added' = assets_added + 1
    /\ IF ClassMismatch(allocations[i], asset)
       THEN /\ stage' = "panicked"
            /\ outcome' = "ClassMismatch"
            /\ UNCHANGED << allocations, ledger >>
       ELSE /\ allocations' = [allocations EXCEPT ![i] = add_asset(@, asset)]
            /\ ledger' = [ledger EXCEPT ![allocations[i].asset_class].assets =
                                            @ + asset.value]
            /\ UNCHANGED << stage, outcome >>
    /\ UNCHANGED << minimum, before, contribution, call, returned >>

\* Portfolio::new(allocations)
PortfolioNew ==
    /\ stage = "allocations"
    /\ stage' = "portfolio"
    /\ allocations' = Portfolio_new(allocations)
    /\ UNCHANGED << assets_added, minimum, before, contribution, outcome,
                    ledger, call, returned >>

\* The query finding the most overallocated fund by sorting the portfolio
MinimumAdditionToBalance_Sorting ==
    /\ stage = "portfolio"
    /\ ~MinimumPanics(allocations)
    /\ minimum' = << minimum_addition_to_balance(allocations) >>
    /\ allocations' =
          IF Portfolio_current_value(allocations) = 0 THEN allocations
          ELSE SortByDeviation(allocations, Portfolio_current_value(allocations))
    /\ UNCHANGED << stage, outcome, assets_added, before, contribution,
                    ledger, call, returned >>

\* portfolio.minimum_addition_to_balance()
MinimumAdditionToBalance ==
    /\ stage = "portfolio"
    /\ IF MinimumPanics(allocations)
       THEN /\ stage' = "panicked"
            /\ outcome' = "DivisionByZero"
            /\ UNCHANGED minimum
       ELSE /\ minimum' = << minimum_addition_to_balance(allocations) >>
            /\ UNCHANGED << stage, outcome >>
    /\ UNCHANGED << allocations, assets_added, before, contribution,
                    ledger, call, returned >>

\* The ledger after a call of optimally_allocate that returned result: one
\* add_contribution call for each allocation of Contributed, with the amount
\* that allocation's future_contribution grew by
LedgerAfter(allocs, c, result) ==
    LET contributed == Contributed(allocs, c)
    IN  [class \in DOMAIN ledger |->
            IF \E i \in contributed : result[i].asset_class = class
            THEN LET was == allocs[CHOOSE j \in 1..Len(allocs) :
                                      allocs[j].asset_class = class]
                     is == result[CHOOSE i \in 1..Len(result) :
                                      result[i].asset_class = class]
                 IN  [ledger[class] EXCEPT
                         !.contributions =
                             @ + is.future_contribution - was.future_contribution,
                         !.calls = @ + 1]
            ELSE ledger[class]]

\* optimally_allocate checking the withdrawal only after the proportional
\* amounts were added
OptimallyAllocate_ChecksLate(c) ==
    /\ stage = "portfolio"
    /\ before' = allocations
    /\ contribution' = c
    /\ IF Outcome(allocations, c) \in {"Proportional", "General"}
       THEN /\ allocations' = optimally_allocate(allocations, c)
            /\ ledger' = LedgerAfter(allocations, c, allocations')
            /\ stage' = "allocated"
            /\ outcome' = "Ok"
       ELSE /\ stage' = "panicked"
            /\ outcome' = Outcome(allocations, c)
            /\ allocations' =
                  IF Outcome(allocations, c) = "OverWithdrawal"
                  THEN proportionally_allocate(allocations, c)
                  ELSE allocations
            /\ UNCHANGED ledger
    /\ UNCHANGED << assets_added, minimum, call, returned >>

\* optimally_allocate with a sort that leaves classes of equal deviation in
\* any order (the order of the result for the portfolio listed in any order)
OptimallyAllocate_AnyTieOrder(c) ==
    /\ stage = "portfolio"
    /\ before' = allocations
    /\ contribution' = c
    /\ IF Outcome(allocations, c) \in {"Proportional", "General"}
       THEN /\ \E f \in [1..Len(allocations) -> 1..Len(allocations)] :
                  /\ \A i, j \in 1..Len(allocations) : i # j => f[i] # f[j]
                  /\ allocations' =
                        optimally_allocate([i \in 1..Len(allocations) |-> allocations[f[i]]], c)
            /\ ledger' = LedgerAfter(allocations, c, allocations')
            /\ stage' = "allocated"
            /\ outcome' = "Ok"
       ELSE /\ stage' = "panicked"
            /\ outcome' = Outcome(allocations, c)
            /\ UNCHANGED << allocations, ledger >>
    /\ UNCHANGED << assets_added, minimum, call, returned >>

\* optimally_allocate(portfolio, c)
OptimallyAllocate(c) ==
    /\ stage = "portfolio"
    /\ before' = allocations
    /\ contribution' = c
    /\ IF Outcome(allocations, c) \in {"Proportional", "General"}
       THEN /\ allocations' = optimally_allocate(allocations, c)
            /\ ledger' = LedgerAfter(allocations, c, allocations')
            /\ stage' = "allocated"
            /\ outcome' = "Ok"
       ELSE /\ stage' = "panicked"
            /\ outcome' = Outcome(allocations, c)
            /\ UNCHANGED << allocations, ledger >>
    /\ UNCHANGED << assets_added, minimum, call, returned >>

\* The amounts handed to add_contribution before the portfolio is built
Amounts == {Dec(-1), Dec(MaxContribution)}

\* Number of add_contribution calls made so far
CallsMade ==
    Sum([i \in 1..Len(allocations) |-> ledger[allocations[i].asset_class].calls])

\* allocations[i].add_contribution(amount)
AddContribution(i, amount) ==
    /\ stage = "allocations"
    /\ CallsMade < MaxCalls
    /\ allocations' = [allocations EXCEPT ![i] = add_contribution(@, amount)]
    /\ ledger' = [ledger EXCEPT
                     ![allocations[i].asset_class].contributions = @ + amount,
                     ![allocations[i].asset_class].calls = @ + 1]
    /\ UNCHANGED << stage, assets_added, minimum, before, contribution, outcome,
                    call, returned >>

Next ==
    \/ \E i \in 1..Len(allocations), asset \in Asset : AddAsset(i, asset)
    \/ PortfolioNew
    \/ MinimumAdditionToBalance
    \/ \E c \in Contributions \cup Range(minimum) : OptimallyAllocate(c)

Spec == Init /\ [][Next]_vars

\* The allocations as a caller of the library may build them: assets and
\* future contributions in any order, then the portfolio
NextBuild ==
    \/ \E i \in 1..Len(allocations), asset \in Asset : AddAsset(i, asset)
    \/ \E i \in 1..Len(allocations), amount \in Amounts : AddContribution(i, amount)
    \/ PortfolioNew

\* Target ratios of the allocations a caller builds, in tenths
BuildRatios == { << 10 >>, << 5, 5 >>, << 3, 3 >>, << 7, 7 >>, << 3, 3, 4 >> }

InitBuild ==
    /\ Init
    /\ \E ratios \in BuildRatios :
          /\ Len(allocations) = Len(ratios)
          /\ \A i \in 1..Len(ratios) : allocations[i].target_ratio = Tenths(ratios[i])

SpecBuild == InitBuild /\ [][NextBuild]_vars

\* optimally_allocate(portfolio, c) on the portfolio an earlier call returned,
\* which carries that call's future contributions
OptimallyAllocateAgain(c) ==
    /\ stage = "allocated"
    /\ before' = allocations
    /\ contribution' = c
    /\ IF Outcome(allocations, c) \in {"Proportional", "General"}
       THEN /\ allocations' = optimally_allocate(allocations, c)
            /\ ledger' = LedgerAfter(allocations, c, allocations')
            /\ stage' = "reallocated"
            /\ outcome' = "Ok"
       ELSE /\ stage' = "panicked"
            /\ outcome' = Outcome(allocations, c)
            /\ UNCHANGED << allocations, ledger >>
    /\ UNCHANGED << assets_added, minimum, call, returned >>

\* A caller of the library that hands the returned portfolio to
\* optimally_allocate once more
NextRepeat ==
    \/ \E i \in 1..Len(allocations), asset \in Asset : AddAsset(i, asset)
    \/ PortfolioNew
    \/ \E c \in Contributions : OptimallyAllocate(c)
    \/ \E c \in Contributions : OptimallyAllocateAgain(c)

SpecRepeat == InitBuild /\ [][NextRepeat]_vars

\* Bond ratios handed to core_four: every hundredth from below 0 to above 1,
\* and the ratios up to two units of the last place away from one
RatioInputs ==
    {h * (FineUnit \div 100) + d : h \in (-1)..101, d \in (-2)..2}

\* Days from the birthday to today: whole weeks up to MaxAge years and the
\* days around the first week, 0 or less for a birthday not in the past
Days == {7 * w : w \in 0..(52 * MaxAge)} \cup {-7, -1, 1, 6, 8}

\* from_years: main asks for 120
FromYears == {0, 1, 2, 3, 100, 101, 102, 103, 120, 255}

\* Prices handed to price_to_cents: from below 0 to above u64::MAX cents, by
\* the last place
Quantities == (-3 * (FineUnit \div 100))..((U64Max + 3) * (FineUnit \div 100))

\* The calls of single functions
Calls ==
    {[function |-> "core_four", args |-> << r >>] : r \in RatioInputs}
    \cup {[function |-> "bond_allocation", args |-> << d, y >>] :
              d \in Days, y \in FromYears}
    \cup {[function |-> "price_to_cents", args |-> << q >>] : q \in Quantities}

InitFunctions ==
    /\ stage = "function"
    /\ allocations = << >>
    /\ assets_added = 0
    /\ minimum = << >>
    /\ before = << >>
    /\ contribution = 0
    /\ outcome = "none"
    /\ ledger = << >>
    /\ \E c \in Calls : call = << c >>
    /\ returned = << >>

\* The call returns value, or panics with the message panic
Return(panic, value) ==
    /\ returned' = << [panic |-> panic, value |-> value] >>
    /\ UNCHANGED << stage, allocations, assets_added, minimum, before, contribution,
                    outcome, ledger, call >>

\* core_four(ratio_bonds)
CoreFour ==
    /\ stage = "function"
    /\ returned = << >>
    /\ call[1].function = "core_four"
    /\ LET ratio_bonds == call[1].args[1]
       IN  IF CoreFourPanic(ratio_bonds) # "none"
           THEN Return(CoreFourPanic(ratio_bonds), << >>)
           ELSE Return("none", core_four(ratio_bonds))

\* bond_allocation(birthday, from_years)
BondAllocation ==
    /\ stage = "function"
    /\ returned = << >>
    /\ call[1].function = "bond_allocation"
    /\ LET days == call[1].args[1]
           from_years == call[1].args[2]
       IN  IF BornInFuture(days)
           THEN Return("You were born in the future?", << >>)
           ELSE Return("none", << bond_allocation(days, from_years) >>)

\* price_to_cents(&quantity)
PriceToCents ==
    /\ stage = "function"
    /\ returned = << >>
    /\ call[1].function = "price_to_cents"
    /\ Return("none", price_to_cents(call[1].args[1]))

NextFunctions ==
    \/ CoreFour
    \/ BondAllocation
    \/ PriceToCents

SpecFunctions == InitFunctions /\ [][NextFunctions]_vars

\* ------------------------------------------------------------------ claims
\* Sum of the allocations' future_contribution
SumFutureContributions(allocs) ==
    Sum([i \in 1..Len(allocs) |-> allocs[i].future_contribution])

\* optimally_allocate returned a portfolio
Allocated == stage = "allocated"

\* The call of optimally_allocate ended in the panic e
Failed(e) == stage = "panicked" /\ before # << >> /\ outcome = e

\* C1: after a successful optimally_allocate the future contributions sum to
\* the contribution exactly, and the portfolio's future value is its current
\* value plus the contribution.
C1_Conservation ==
    Allocated =>
        /\ SumFutureContributions(allocations) = contribution
        /\ Portfolio_future_value(allocations)
               = Portfolio_current_value(before) + contribution

\* C1, proportional branch only
C1_ProportionalConservation ==
    (Allocated /\ Portfolio_current_value(before) = 0) =>
        SumFutureContributions(allocations) = contribution

\* optimally_allocate was called
Called == before # << >>

\* C2 as claimed: whatever the contribution, a portfolio whose target ratios
\* do not sum to 1 fails with ImbalancedTargets.
C2_AnyContributionImbalanced ==
    (Called /\ sum_target_ratios(before) # Dec(1)) => Failed("ImbalancedTargets")

\* C2 as amended: a portfolio whose target ratios do not sum to 1 is never
\* allocated; it fails with ImbalancedTargets for every non-zero contribution
\* and with ZeroContribution for a contribution of 0.
C2_ImbalancedTargets ==
    (Called /\ sum_target_ratios(before) # Dec(1)) =>
        IF contribution = 0
        THEN Failed("ZeroContribution")
        ELSE Failed("ImbalancedTargets")

C2_Witness ==
    /\ Failed("ImbalancedTargets")
    /\ contribution > 0
    /\ Len(before) = 2

\* C3: with target ratios summing to 1, a withdrawal of at least the
\* portfolio's current value fails with OverWithdrawal.
C3_OverWithdrawal ==
    (/\ Called
     /\ sum_target_ratios(before) = Dec(1)
     /\ contribution < 0
     /\ Abs(contribution) >= Portfolio_current_value(before))
        => Failed("OverWithdrawal")

C3_Witness ==
    /\ Failed("OverWithdrawal")
    /\ Portfolio_current_value(before) > 0
    /\ contribution = -Portfolio_current_value(before)

C5_ZeroContribution ==
    (Called /\ contribution = 0) => Failed("ZeroContribution")

C5_Witness ==
    /\ Failed("ZeroContribution")
    /\ sum_target_ratios(before) # Dec(1)

\* C6: when optimally_allocate fails, no allocation's future_contribution
\* (nor anything else of the portfolio) differs from before the call.
C6_NoPartialExecution ==
    (Called /\ stage = "panicked") => allocations = before

C6_Witness ==
    /\ Failed("NegativeBalance")
    /\ allocations = before

\* Every asset of the portfolio has a value of at least 0
NonNegativeValues(allocs) ==
    \A i \in 1..Len(allocs) :
        \A j \in 1..Len(allocs[i].underlying_assets) :
            allocs[i].underlying_assets[j].value >= 0

\* Every target ratio lies in (0, 1]
RatiosInUnitInterval(allocs) ==
    \A i \in 1..Len(allocs) :
        allocs[i].target_ratio > 0 /\ allocs[i].target_ratio <= Dec(1)

\* minimum_addition_to_balance has answered for the portfolio as it stands
MinimumKnown == stage = "portfolio" /\ minimum # << >>

\* C7 as claimed: for non-negative asset values and target ratios in (0,1],
\* the minimum m is 0 on a portfolio of current value 0 and otherwise
\* v/r - current_value for the most overallocated class; m >= 0, that class
\* holds exactly the share r of current_value + m, and below m it is still
\* above its target share.
C7_MinimumAddition ==
    (MinimumKnown /\ NonNegativeValues(allocations) /\ RatiosInUnitInterval(allocations))
        => LET total == Portfolio_current_value(allocations)
               most == MostOverallocated(allocations, total)
               v == current_value(most)
               r == most.target_ratio
               m == minimum[1]
           IN  IF total = 0 THEN m = 0
               ELSE /\ m = DecDiv(v, r) - total
                    /\ m >= 0
                    /\ v * Unit = r * (total + m)
                    /\ \A less \in 0..(m - 1) : v * Unit > r * (total + less)

\* The position of the class of allocations[i] in the portfolio before the call
PositionBefore(i) ==
    CHOOSE j \in 1..Len(before) : before[j].asset_class = allocations[i].asset_class

\* What the call added to the future contribution of allocations[i]
Received(i) ==
    allocations[i].future_contribution
        - before[PositionBefore(i)].future_contribution

\* deviation(new_total) of allocations[i] as it was before the call
DeviationBefore(i) ==
    deviation(before[PositionBefore(i)],
              Portfolio_current_value(before) + contribution)

\* The minimum to balance was positive and was the contribution allocated
AllocatedMinimum ==
    /\ Allocated
    /\ minimum # << >>
    /\ contribution = minimum[1]
    /\ contribution > 0
    /\ Portfolio_current_value(before) > 0

C9_MinimumIsPure ==
    [][(stage = "portfolio" /\ before' = << >>) => allocations' = allocations]_vars

C9_Witness ==
    /\ Allocated
    /\ minimum # << >>
    /\ Len(before) = 3
    /\ Portfolio_current_value(before) > 0

DeviationAfter(i) ==
    deviation(allocations[i], Portfolio_current_value(before) + contribution)

\* C11: after a successful optimally_allocate, for any two classes A and B
\* with A's deviation(new_total) <= B's before the contributions of the run,
\* A's deviation(new_total) is still <= B's after them.
C11_MonotonicImprovement ==
    (Allocated /\ RatiosInUnitInterval(before)) =>
        \A i, j \in 1..Len(allocations) :
            DeviationBefore(i) <= DeviationBefore(j)
                => DeviationAfter(i) <= DeviationAfter(j)

\* The amounts one class may get in a split of the contribution c: whole
\* dollars of the sign of c up to c, and what such an amount leaves of c
Parts(c) ==
    LET whole == {Dec(k) : k \in 0..(Abs(c) \div Unit)}
        signed == IF c < 0 THEN {-p : p \in whole} ELSE whole
    IN  signed \cup {c - p : p \in signed}

\* The splits of c over n classes: parts of the sign of c summing to c
Splits(n, c) == {s \in [1..n -> Parts(c)] : Sum(s) = c}

\* |deviation(new_total)| of allocations[i] had it received part, as the
\* exact quotient |fv x 1 - new_total x r| / (new_total x r), times new_total
AbsDeviationOver(i, part) ==
    LET b == before[PositionBefore(i)]
        new_total == Portfolio_current_value(before) + contribution
    IN  Abs((future_value(b) + part) * Unit - new_total * b.target_ratio)

\* The greatest |deviation| under the split s is at most that under t
NoWorse(s, t) ==
    \A i \in 1..Len(allocations) : \E j \in 1..Len(allocations) :
        AbsDeviationOver(i, s[i]) * allocations[j].target_ratio
            <= AbsDeviationOver(j, t[j]) * allocations[i].target_ratio

\* What the call gave to each class, in the returned order
Split == [i \in 1..Len(allocations) |-> Received(i)]

\* C12: on a portfolio of positive current value the computed split is the
\* unique split of the contribution (parts summing exactly to it) that
\* minimises the greatest absolute deviation(new_total): every other split
\* leaves a strictly greater one.
C12_Optimality ==
    (Allocated /\ Portfolio_current_value(before) > 0) =>
        /\ Sum(Split) = contribution
        /\ \A s \in Splits(Len(allocations), contribution) :
              s # Split => ~NoWorse(s, Split)

\* C12, uniqueness only: where the computed parts do sum to the contribution,
\* every other split leaves a strictly greater absolute deviation.
C12_UniqueSplit ==
    (Allocated /\ Portfolio_current_value(before) > 0 /\ Sum(Split) = contribution) =>
        \A s \in Splits(Len(allocations), contribution) :
              s # Split => ~NoWorse(s, Split)

\* Every asset an allocation holds is of the allocation's class
AllOfOwnClass(allocs) ==
    \A i \in 1..Len(allocs) :
        \A j \in 1..Len(allocs[i].underlying_assets) :
            allocs[i].underlying_assets[j].asset_class = allocs[i].asset_class

\* Number of assets the allocations hold
NumberOfAssets(allocs) ==
    Sum([i \in 1..Len(allocs) |-> Len(allocs[i].underlying_assets)])

\* C13: a call of add_asset either fails with ClassMismatch and leaves every
\* underlying_assets as it was, or adds one asset and every asset held is of
\* its allocation's class: an asset of another class is never added.
C13_ClassMismatch ==
    [][(stage = "allocations" /\ assets_added' # assets_added) =>
          \/ /\ stage' = "panicked"
             /\ outcome' = "ClassMismatch"
             /\ allocations' = allocations
          \/ /\ stage' = "allocations"
             /\ outcome' = outcome
             /\ NumberOfAssets(allocations') = NumberOfAssets(allocations) + 1
             /\ AllOfOwnClass(allocations')]_vars

\* An allocation that holds assets refused one of another class
C13_Witness ==
    /\ stage = "panicked"
    /\ outcome = "ClassMismatch"
    /\ NumberOfAssets(allocations) = 2
    /\ AllOfOwnClass(allocations)

\* C14: whatever the order of the add_asset and add_contribution calls made
\* on an allocation since new, its current_value is the sum of the values of
\* the assets added (contributions do not count) and its future_value is
\* current_value plus the sum of the amounts contributed.
C14_ValueSums ==
    before = << >> =>
        \A i \in 1..Len(allocations) :
            LET a == allocations[i]
                handed == ledger[a.asset_class]
            IN  /\ current_value(a) = handed.assets
                /\ future_value(a) = current_value(a) + handed.contributions

\* An allocation that holds an asset got the two amounts, in either order
C14_Witness ==
    /\ stage = "allocations"
    /\ \E i \in 1..Len(allocations) :
          LET a == allocations[i]
              handed == ledger[a.asset_class]
          IN  /\ handed.calls = 2
              /\ handed.contributions = Dec(MaxContribution) - Dec(1)
              /\ current_value(a) > 0
              /\ future_value(a) = current_value(a) + Dec(MaxContribution) - Dec(1)

\* The position of the allocation a in the list allocs
PositionIn(allocs, a) ==
    CHOOSE j \in 1..Len(allocs) : allocs[j].asset_class = a.asset_class

\* C15: Portfolio::new accepts every list of allocations, whatever the sum
\* of the target ratios, and returns the same allocations by descending
\* current_value; allocations of equal current value keep their order, so
\* the pending future contributions do not count.
C15_PortfolioOrder ==
    [][(stage = "allocations" /\ assets_added' = assets_added /\ ledger' = ledger) =>
          /\ stage' = "portfolio"
          /\ Len(allocations') = Len(allocations)
          /\ \A i \in 1..Len(allocations) :
                allocations'[PositionIn(allocations', allocations[i])] = allocations[i]
          /\ \A i, j \in 1..Len(allocations') :
                i < j => current_value(allocations'[i]) >= current_value(allocations'[j])
          /\ \A i, j \in 1..Len(allocations) :
                (i < j /\ current_value(allocations[i]) = current_value(allocations[j]))
                    => PositionIn(allocations', allocations[i])
                          < PositionIn(allocations', allocations[j])]_vars

\* A portfolio whose ratios do not sum to 1 was built, and the class with
\* the smaller future value comes first because it holds more
C15_Witness ==
    /\ stage = "portfolio"
    /\ before = << >>
    /\ sum_target_ratios(allocations) # Dec(1)
    /\ Len(allocations) = 2
    /\ current_value(allocations[1]) > current_value(allocations[2])
    /\ future_value(allocations[1]) < future_value(allocations[2])
    /\ allocations[1].asset_class = ClassOrder[2]

Returned(f) == returned # << >> /\ call[1].function = f

\* C17: core_four rejects a negative ratio_bonds and one above 1; for every
\* ratio_bonds from 0 to 1 it returns five allocations whose target ratios
\* sum to exactly 1.
C17_CoreFourSumsToOne ==
    Returned("core_four") =>
        LET ratio_bonds == call[1].args[1]
            result == returned[1]
        IN  /\ ratio_bonds < 0 => result.panic = "Ratio must be positive"
            /\ ratio_bonds > FineUnit => result.panic = "Ratio cannot exceed 100%"
            /\ (ratio_bonds >= 0 /\ ratio_bonds <= FineUnit) =>
                  /\ result.panic = "none"
                  /\ Len(result.value) = 5
                  /\ sum_target_ratios(result.value) = FineUnit

\* C17 for the bond ratios of two places less than a Decimal keeps, which
\* the products with 0.33, 0.17, 0.40 and 0.10 hold without rounding
C17_SumsToOneWithoutRounding ==
    (Returned("core_four") /\ call[1].args[1] % 100 = 0) =>
        LET ratio_bonds == call[1].args[1]
            result == returned[1]
        IN  (ratio_bonds >= 0 /\ ratio_bonds <= FineUnit) =>
                  /\ result.panic = "none"
                  /\ Len(result.value) = 5
                  /\ sum_target_ratios(result.value) = FineUnit

\* C18: for a birthday in the past bond_allocation returns a ratio from 0 to
\* 1, which core_four accepts: exactly 1 when from_years minus the age is
\* negative, exactly 0 when it exceeds 100, and otherwise 1 minus the stock
\* share, the hundredth part of that difference rounded to four places.
\* (The age is age_in_weeks / 52: the difference is share52 / 52.)
C18_BondAllocationRange ==
    (Returned("bond_allocation") /\ returned[1].panic = "none") =>
        LET days == call[1].args[1]
            from_years == call[1].args[2]
            ratio == returned[1].value[1]
            share52 == 52 * from_years - age_in_weeks(days)
            place == FineUnit \div 10000
            ratio4 == ratio \div place
        IN  /\ days > 0
            /\ ratio >= 0
            /\ ratio <= FineUnit
            /\ CoreFourPanic(ratio) = "none"
            /\ ratio = ratio4 * place
            /\ share52 < 0 => ratio = FineUnit
            /\ share52 > 5200 => ratio = 0
            /\ (share52 >= 0 /\ share52 <= 5200) =>
                  Abs(52 * (10000 - ratio4) - 100 * share52) <= 26

\* An investor of 53 weeks with from_years 100: a stock share of 98.98%
\* (100 - 53/52 is 98.9807...), the rest in bonds
C18_Witness ==
    /\ Returned("bond_allocation")
    /\ call[1].args = << 7 * 53, 100 >>
    /\ returned[1].panic = "none"
    /\ 10000 * returned[1].value[1] = 102 * FineUnit

\* c is quantity x 100 rounded to the nearest integer, ties to the even one
IsHalfEvenCents(quantity, c) ==
    LET twice == 2 * Abs(100 * quantity - c * FineUnit)
    IN  twice < FineUnit \/ (twice = FineUnit /\ c % 2 = 0)

C20_ExactArithmetic ==
    /\ (Allocated /\ Portfolio_current_value(before) > 0) =>
          LET new_total == Portfolio_current_value(before) + contribution
          IN  /\ \A i \in 1..Len(before) :
                    /\ percent_holdings(before[i], new_total) * new_total
                          = future_value(before[i]) * Unit
                    /\ (deviation(before[i], new_total) + Dec(1)) * before[i].target_ratio
                          = percent_holdings(before[i], new_total) * Unit
              /\ SumFutureContributions(allocations) = contribution
    /\ (MinimumKnown /\ Portfolio_current_value(allocations) # 0) =>
          LET total == Portfolio_current_value(allocations)
              most == MostOverallocated(allocations, total)
          IN  (minimum[1] + total) * most.target_ratio = current_value(most) * Unit

\* The walk optimally_allocate made over the portfolio it was handed
WalkOfCall ==
    LET new_total == Portfolio_current_value(before) + contribution
    IN  Walk(PriorityOrder(before, contribution, new_total), new_total, 1,
             contribution, 0, << contribution >>)

\* The call took the general branch and returned a portfolio
AllocatedByWalk == Allocated /\ Portfolio_current_value(before) > 0

\* C21: after a successful optimally_allocate on a portfolio of positive
\* current value, every class that received a non-zero amount ends at the
\* final deviation_target L as its deviation(new_total); after a deposit every
\* class that received nothing has a deviation(new_total) of at least L, after
\* a withdrawal every class not drawn from one of at most L.
C21_WaterLevel ==
    AllocatedByWalk =>
        LET L == WalkOfCall.deviation_target
        IN  \A i \in 1..Len(allocations) :
               /\ Received(i) # 0 => DeviationAfter(i) = L
               /\ (Received(i) = 0 /\ contribution > 0) => DeviationAfter(i) >= L
               /\ (Received(i) = 0 /\ contribution < 0) => DeviationAfter(i) <= L

\* amount_left_to_contribute at the start of the walk and after each iteration
AmountsLeft == WalkOfCall.lefts

\* The input the walk is meant for: ratios summing to 1 (checked by the
\* call), a positive current value and no class of negative value
ValidWalk == AllocatedByWalk /\ NonNegativeValues(before)

\* C22: during the walk of optimally_allocate on valid input amount_left has
\* the sign of the contribution or is 0, its magnitude never increases from
\* one iteration to the next, the assertion |amount_left| > 0 at the start of
\* an iteration never fails, and the walk ends with amount_left = 0.
C22_AmountLeft ==
    ValidWalk =>
        /\ \A k \in 1..Len(AmountsLeft) :
              AmountsLeft[k] = 0 \/ (AmountsLeft[k] > 0) = (contribution > 0)
        /\ \A k \in 1..(Len(AmountsLeft) - 1) :
              /\ Abs(AmountsLeft[k + 1]) <= Abs(AmountsLeft[k])
              /\ Abs(AmountsLeft[k]) > 0
        /\ AmountsLeft[Len(AmountsLeft)] = 0

\* C22 without its last part: sign, shrinking magnitude and the assertion
C22_ShrinksTowardZero ==
    ValidWalk =>
        /\ \A k \in 1..Len(AmountsLeft) :
              AmountsLeft[k] = 0 \/ (AmountsLeft[k] > 0) = (contribution > 0)
        /\ \A k \in 1..(Len(AmountsLeft) - 1) :
              /\ Abs(AmountsLeft[k + 1]) <= Abs(AmountsLeft[k])
              /\ Abs(AmountsLeft[k]) > 0

\* The allocation a with its future_contribution left out
WithoutContribution(a) ==
    [asset_class |-> a.asset_class,
     target_ratio |-> a.target_ratio,
     underlying_assets |-> a.underlying_assets]

\* C23: a successful call of optimally_allocate returns the same allocations,
\* each with its asset_class, target_ratio, underlying assets and
\* current_value as before; it changes no field but future_contribution and
\* calls add_contribution at most once on each allocation.
C23_Frame ==
    [][(stage = "portfolio" /\ stage' = "allocated") =>
          /\ Len(allocations') = Len(allocations)
          /\ \A j \in 1..Len(allocations) :
                LET i == PositionIn(allocations', allocations[j])
                IN  /\ WithoutContribution(allocations'[i])
                          = WithoutContribution(allocations[j])
                    /\ current_value(allocations'[i]) = current_value(allocations[j])
                    /\ DOMAIN allocations'[i] = DOMAIN allocations[j]
          /\ \A class \in DOMAIN ledger :
                /\ ledger'[class].calls - ledger[class].calls \in {0, 1}
                /\ ledger'[class].assets = ledger[class].assets]_vars

\* A withdrawal that changed the order of three classes, drew from one with
\* one call of add_contribution and called it on no other
C23_Witness ==
    /\ AllocatedByWalk
    /\ contribution < 0
    /\ Len(allocations) = 3
    /\ allocations[1].asset_class # before[1].asset_class
    /\ Received(1) < 0
    /\ ledger[allocations[1].asset_class].calls = 1
    /\ ledger[allocations[2].asset_class].calls = 0
    /\ ledger[allocations[3].asset_class].calls = 0

\* C24: after a successful optimally_allocate on a portfolio of positive
\* current value the allocations are in the order of their deviation(new_total)
\* as it was before the contributions of this run, ascending for a deposit
\* and descending for a withdrawal, not by descending current value; in the
\* empty-portfolio branch they are in the order Portfolio::new gave them.
C24_ReturnedOrder ==
    Allocated =>
        IF Portfolio_current_value(before) > 0
        THEN \A i, j \in 1..Len(allocations) :
                i < j =>
                    IF contribution > 0
                    THEN DeviationBefore(i) <= DeviationBefore(j)
                    ELSE DeviationBefore(i) >= DeviationBefore(j)
        ELSE \A i \in 1..Len(allocations) :
                allocations[i].asset_class = before[i].asset_class

\* A deposit returned the class holding less before the one holding more,
\* which Portfolio::new had put first
C24_Witness ==
    /\ AllocatedByWalk
    /\ contribution > 0
    /\ Len(allocations) = 2
    /\ current_value(allocations[1]) < current_value(allocations[2])
    /\ DeviationBefore(1) < DeviationBefore(2)
    /\ allocations[1].asset_class = before[2].asset_class

\* Every target ratio of the allocations, at the places of allocation.rs,
\* is above 0 and at most 1
PositiveRatios(allocs) ==
    \A i \in 1..Len(allocs) :
        allocs[i].target_ratio > 0 /\ allocs[i].target_ratio <= FineUnit

\* C25: every allocation that core_four returns for an accepted ratio_bonds
\* has a target ratio above 0 and at most 1, for every ratio from 0 to 1 and
\* so for every ratio that bond_allocation returns: deviation and
\* minimum_addition_to_balance divide by no zero target ratio.
C25_NoZeroTargetRatio ==
    /\ (Returned("core_four") /\ returned[1].panic = "none") =>
          PositiveRatios(returned[1].value)
    /\ (Returned("bond_allocation") /\ returned[1].panic = "none") =>
          /\ CoreFourPanic(returned[1].value[1]) = "none"
          /\ PositiveRatios(core_four(returned[1].value[1]))

\* C26: after a successful optimally_allocate on a portfolio whose classes
\* have no negative value and no pending future contribution, a deposit has
\* given no class a negative future_contribution and a withdrawal has given
\* no class a positive one.
C26_SignOfContributions ==
    (Allocated /\ NonNegativeValues(before) /\ SumFutureContributions(before) = 0) =>
        \A i \in 1..Len(allocations) :
            /\ before[PositionBefore(i)].future_contribution = 0
            /\ contribution > 0 => allocations[i].future_contribution >= 0
            /\ contribution < 0 => allocations[i].future_contribution <= 0

\* A withdrawal drew from two classes and left the third, which holds
\* nothing, alone
C26_Witness ==
    /\ AllocatedByWalk
    /\ NonNegativeValues(before)
    /\ contribution < 0
    /\ Len(allocations) = 3
    /\ allocations[1].future_contribution < 0
    /\ allocations[2].future_contribution < 0
    /\ allocations[3].future_contribution = 0
    /\ current_value(allocations[3]) = 0

\* optimally_allocate returned the portfolio of an earlier call with more added
Reallocated == stage = "reallocated"

\* What the future contributions of the portfolio grew by in the last call
GrowthOfContributions ==
    SumFutureContributions(allocations) - SumFutureContributions(before)

\* C27: a successful optimally_allocate on a portfolio that carries non-zero
\* future contributions increases the sum of future_contribution by exactly
\* the contribution passed (so that after any sequence of successful calls
\* the sum is that of the contributions passed).
C27_RepeatedCalls ==
    (Reallocated /\ SumFutureContributions(before) # 0) =>
        GrowthOfContributions = contribution

\* C27 up to the rounding of the deltas, half a unit of the last place each
C27_UpToRounding ==
    (Reallocated /\ SumFutureContributions(before) # 0) =>
        Abs(GrowthOfContributions - contribution) <= 2 * Len(allocations)

\* The orders in which n allocations may come out of the hash map
Orders(n) == {f \in [1..n -> 1..n] : \A i, j \in 1..n : i # j => f[i] # f[j]}

\* C28: the future_contribution each asset class receives from
\* optimally_allocate is the same for every order in which the allocations
\* are handed to Portfolio::new, also when classes have the same current
\* value or the same deviation.  (An order that Portfolio::new turns into the
\* portfolio of this run is this run; the others differ from it in the order
\* of classes of the same current value.)
C28_PermutationInvariance ==
    Allocated =>
        \A f \in Orders(Len(before)) :
            LET handed == [i \in 1..Len(before) |-> before[f[i]]]
                portfolio == Portfolio_new(handed)
                other == optimally_allocate(portfolio, contribution)
            IN  portfolio # before =>
                    /\ Outcome(portfolio, contribution) = Outcome(before, contribution)
                    /\ \A i \in 1..Len(allocations) :
                          other[PositionIn(other, allocations[i])].future_contribution
                              = allocations[i].future_contribution

\* A withdrawal drew from two classes of the same target ratio, current
\* value and deviation, which Portfolio::new leaves in the order it got them
C28_Witness ==
    /\ AllocatedByWalk
    /\ contribution < 0
    /\ Len(allocations) = 3
    /\ \E i, j \in 1..3 :
          /\ i # j
          /\ current_value(allocations[i]) = current_value(allocations[j])
          /\ DeviationBefore(i) = DeviationBefore(j)
          /\ Received(i) < 0
          /\ Received(j) < 0

\* C29: optimally_allocate tests zero contribution, ratio sum,
\* over-withdrawal, the empty-portfolio shortcut and negative balance in that
\* order and reports the first that applies; a portfolio of negative current
\* value is never allocated, failing (once the contribution is not 0 and the
\* ratios sum to 1) with NegativeBalance for a deposit and with
\* OverWithdrawal for a withdrawal.
C29_Precedence ==
    Called =>
        LET current == Portfolio_current_value(before)
            zero == contribution = 0
            imbalanced == sum_target_ratios(before) # Dec(1)
            overdrawn == contribution < 0 /\ -contribution >= current
        IN  /\ zero => Failed("ZeroContribution")
            /\ (~zero /\ imbalanced) => Failed("ImbalancedTargets")
            /\ (~zero /\ ~imbalanced /\ overdrawn) => Failed("OverWithdrawal")
            /\ (~zero /\ ~imbalanced /\ ~overdrawn /\ current = 0) =>
                  Allocated /\ allocations = proportionally_allocate(before, contribution)
            /\ (~zero /\ ~imbalanced /\ ~overdrawn /\ current < 0) =>
                  Failed("NegativeBalance")
            /\ current < 0 =>
                  /\ ~Allocated
                  /\ (~zero /\ ~imbalanced /\ contribution > 0) => Failed("NegativeBalance")
                  /\ (~zero /\ ~imbalanced /\ contribution < 0) => Failed("OverWithdrawal")

\* A withdrawal from a portfolio of negative current value, ratios summing
\* to 1, failed as OverWithdrawal
C29_Witness ==
    /\ Failed("OverWithdrawal")
    /\ Portfolio_current_value(before) < 0
    /\ sum_target_ratios(before) = Dec(1)
    /\ contribution < 0

\* Every class holds a current value of at least 0
NonNegativeClasses(allocs) ==
    \A i \in 1..Len(allocs) : current_value(allocs[i]) >= 0

\* C30: after a successful optimally_allocate with a negative contribution on
\* a portfolio whose classes all have a current value of at least 0, every
\* allocation's future_value is at least 0: no class is drawn below nothing.
C30_NoOverdrawnClass ==
    (Allocated /\ contribution < 0 /\ NonNegativeClasses(before)) =>
        \A i \in 1..Len(allocations) : future_value(allocations[i]) >= 0

\* A withdrawal took most of what one class held and drew nothing from a
\* class that holds nothing
C30_Witness ==
    /\ AllocatedByWalk
    /\ contribution < 0
    /\ NonNegativeClasses(before)
    /\ \E i, j \in 1..Len(allocations) :
          /\ Received(i) < 0
          /\ future_value(allocations[i]) > 0
          /\ future_value(allocations[i]) < -Received(i)
          /\ Received(j) = 0
          /\ current_value(allocations[j]) = 0

====
